---------------------------- MODULE Spec2Model ----------------------------
(***************************************************************************)
(* A model of the chess engine session of src/chess_engine.py and of the   *)
(* request handlers of src/app.py.                                         *)
(*                                                                         *)
(* The engine delegates the rules of chess to the python-chess library     *)
(* (the "board/rules collaborator").  The library is modelled by what the  *)
(* engine uses of it: a piece placement on the 64 squares, the side to     *)
(* move, push/pop with the stack of saved states, attack detection, and    *)
(* the legal moves.  Move generation is restricted to the candidate moves  *)
(* of Universe: the legal moves of a position are the moves of Universe    *)
(* that are legal chess moves there.  Castling, en passant, promotion and  *)
(* the move counters are outside the model; no move of Universe needs      *)
(* them.                                                                   *)
(***************************************************************************)
EXTENDS Integers, Sequences, FiniteSets, TLC

VARIABLES board, move_history, redo_stack, ai_color, response

vars == <<board, move_history, redo_stack, ai_color, response>>

(***************************************************************************)
(* Bounds of the model.                                                    *)
(***************************************************************************)
\* the longest played history a session is driven to
MaxHist == 3
\* the largest search depth a request asks for
MaxDepth == 1
\* the clock is read once per search node; the budget may run out at any of
\* the first MaxClock reads, or never
MaxClock == 1

(***************************************************************************)
(* Squares, colours and pieces (python-chess conventions).                 *)
(***************************************************************************)
WHITE == "white"
BLACK == "black"
NoColor == "None"

Opp(c) == IF c = WHITE THEN BLACK ELSE WHITE

SQUARES == 0 .. 63

square_file(sq) == sq % 8
square_rank(sq) == sq \div 8
square(f, r) == r * 8 + f

FILE_NAMES == <<"a", "b", "c", "d", "e", "f", "g", "h">>
RANK_NAMES == <<"1", "2", "3", "4", "5", "6", "7", "8">>

square_name(sq) == FILE_NAMES[square_file(sq) + 1] \o RANK_NAMES[square_rank(sq) + 1]

Abs(x) == IF x < 0 THEN -x ELSE x
Max2(x, y) == IF x >= y THEN x ELSE y
Min2(x, y) == IF x <= y THEN x ELSE y

\* piece_at(square) is None on an empty square
NoPiece == "."
WhiteSymbols == {"P", "N", "B", "R", "Q", "K"}
BlackSymbols == {"p", "n", "b", "r", "q", "k"}

\* chess.PIECE_SYMBOLS: a piece type is written by its lower-case letter
PAWN == "p"
KNIGHT == "n"
BISHOP == "b"
ROOK == "r"
QUEEN == "q"
KING == "k"

UpperCase == [p |-> "P", n |-> "N", b |-> "B", r |-> "R", q |-> "Q", k |-> "K"]
LowerCase == [P |-> "p", N |-> "n", B |-> "b", R |-> "r", Q |-> "q", K |-> "k"]

\* Piece.color, Piece.piece_type and Piece.symbol()
PieceColor(p) == IF p \in WhiteSymbols THEN WHITE ELSE BLACK
PieceType(p) == IF p \in WhiteSymbols THEN LowerCase[p] ELSE p
Symbol(t, c) == IF c = WHITE THEN UpperCase[t] ELSE t

(***************************************************************************)
(* Moves and their UCI codes.                                              *)
(***************************************************************************)
NoPromotion == "None"

Move(from, to) == [from_square |-> from, to_square |-> to, promotion |-> NoPromotion]

\* Move.null(), the move of the code "0000"; it is falsy and never legal
NullMove == Move(0, 0)

\* the absent move (Optional[chess.Move] = None)
NoMove == [from_square |-> -1, to_square |-> -1, promotion |-> NoPromotion]

\* the absent string (Optional[str] = None)
None == "<None>"

\* chess.PIECE_SYMBOLS of the pieces a pawn promotes to
PromotionSymbols == {"q", "r", "b", "n"}

\* Move.uci()
uci(m) ==
    IF m = NullMove THEN "0000"
    ELSE square_name(m.from_square) \o square_name(m.to_square)
         \o (IF m.promotion = NoPromotion THEN "" ELSE m.promotion)

\* names.index(ch), -1 when ch is not one of the names
IndexIn(names, ch) ==
    IF \E i \in 1 .. Len(names) : names[i] = ch
    THEN (CHOOSE i \in 1 .. Len(names) : names[i] = ch) - 1
    ELSE -1

\* SQUARE_NAMES.index(name), -1 when name is no square
parse_square(name) ==
    LET f == IndexIn(FILE_NAMES, SubSeq(name, 1, 1))
        r == IndexIn(RANK_NAMES, SubSeq(name, 2, 2))
    IN  IF f >= 0 /\ r >= 0 THEN square(f, r) ELSE -1

\* Move.from_uci raises ValueError on any other code
IsUci(s) ==
    \/ s = "0000"
    \/ /\ Len(s) \in {4, 5}
       /\ parse_square(SubSeq(s, 1, 2)) >= 0
       /\ parse_square(SubSeq(s, 3, 4)) >= 0
       /\ parse_square(SubSeq(s, 1, 2)) # parse_square(SubSeq(s, 3, 4))
       /\ Len(s) = 5 => SubSeq(s, 5, 5) \in PromotionSymbols

\* Move.from_uci
from_uci(s) ==
    IF s = "0000" THEN NullMove
    ELSE [from_square |-> parse_square(SubSeq(s, 1, 2)),
          to_square |-> parse_square(SubSeq(s, 3, 4)),
          promotion |-> IF Len(s) = 5 THEN SubSeq(s, 5, 5) ELSE NoPromotion]

(***************************************************************************)
(* The board: placement, side to move, the move stack and the stack of     *)
(* the states saved by push.                                               *)
(***************************************************************************)
\* the piece placement field of a FEN, rank 8 first
PlacementOfRows(rows) ==
    [sq \in SQUARES |-> rows[8 - square_rank(sq)][square_file(sq) + 1]]

EmptyRow == <<".", ".", ".", ".", ".", ".", ".", ".">>

STARTING_FEN == "rnbqkbnr/pppppppp/8/8/8/8/PPPPPPPP/RNBQKBNR w KQkq - 0 1"
\* after 1. c4 d5
FEN_C4_D5 == "rnbqkbnr/ppp1pppp/8/3p4/2P5/8/PP1PPPPP/RNBQKBNR w KQkq - 0 2"
\* after 1. f3 e5 2. g4 Qh4#
FEN_MATE == "rnb1kbnr/pppp1ppp/8/4p3/6Pq/5P2/PPPPP2P/RNBQKBNR w KQkq - 1 3"
\* after 1. Nc3 d5 2. Nxd5, Black to move
FEN_NXD5 == "rnbqkbnr/ppp1pppp/8/3N4/8/8/PPPPPPPP/R1BQKBNR b KQkq - 0 2"
\* after 1. Nc3 Nf6 2. Nd5 Nxd5, White to move a knight down
FEN_KNIGHT_DOWN == "rnbqkb1r/pppppppp/8/3n4/8/8/PPPPPPPP/R1BQKBNR w KQkq - 0 3"

FenTable ==
    (STARTING_FEN :>
        [rows |-> << <<"r", "n", "b", "q", "k", "b", "n", "r">>,
                     <<"p", "p", "p", "p", "p", "p", "p", "p">>,
                     EmptyRow, EmptyRow, EmptyRow, EmptyRow,
                     <<"P", "P", "P", "P", "P", "P", "P", "P">>,
                     <<"R", "N", "B", "Q", "K", "B", "N", "R">> >>,
         turn |-> WHITE])
    @@ (FEN_C4_D5 :>
        [rows |-> << <<"r", "n", "b", "q", "k", "b", "n", "r">>,
                     <<"p", "p", "p", ".", "p", "p", "p", "p">>,
                     EmptyRow,
                     <<".", ".", ".", "p", ".", ".", ".", ".">>,
                     <<".", ".", "P", ".", ".", ".", ".", ".">>,
                     EmptyRow,
                     <<"P", "P", ".", "P", "P", "P", "P", "P">>,
                     <<"R", "N", "B", "Q", "K", "B", "N", "R">> >>,
         turn |-> WHITE])
    @@ (FEN_MATE :>
        [rows |-> << <<"r", "n", "b", ".", "k", "b", "n", "r">>,
                     <<"p", "p", "p", "p", ".", "p", "p", "p">>,
                     EmptyRow,
                     <<".", ".", ".", ".", "p", ".", ".", ".">>,
                     <<".", ".", ".", ".", ".", ".", "P", "q">>,
                     <<".", ".", ".", ".", ".", "P", ".", ".">>,
                     <<"P", "P", "P", "P", "P", ".", ".", "P">>,
                     <<"R", "N", "B", "Q", "K", "B", "N", "R">> >>,
         turn |-> WHITE])
    @@ (FEN_NXD5 :>
        [rows |-> << <<"r", "n", "b", "q", "k", "b", "n", "r">>,
                     <<"p", "p", "p", ".", "p", "p", "p", "p">>,
                     EmptyRow,
                     <<".", ".", ".", "N", ".", ".", ".", ".">>,
                     EmptyRow, EmptyRow,
                     <<"P", "P", "P", "P", "P", "P", "P", "P">>,
                     <<"R", ".", "B", "Q", "K", "B", "N", "R">> >>,
         turn |-> BLACK])
    @@ (FEN_KNIGHT_DOWN :>
        [rows |-> << <<"r", "n", "b", "q", "k", "b", ".", "r">>,
                     <<"p", "p", "p", "p", "p", "p", "p", "p">>,
                     EmptyRow,
                     <<".", ".", ".", "n", ".", ".", ".", ".">>,
                     EmptyRow, EmptyRow,
                     <<"P", "P", "P", "P", "P", "P", "P", "P">>,
                     <<"R", ".", "B", "Q", "K", "B", "N", "R">> >>,
         turn |-> WHITE])

\* chess.Board(fen) raises ValueError when the notation does not parse
FenParses(fen) == fen \in DOMAIN FenTable

\* chess.Board(fen): the position of the notation, with empty stacks
BoardOf(parsed) ==
    [pl |-> PlacementOfRows(parsed.rows),
     turn |-> parsed.turn,
     move_stack |-> <<>>,
     stack |-> <<>>]

Board(fen) == BoardOf(FenTable[fen])

piece_at(b, sq) == b.pl[sq]

\* board.push(move): saves the state, moves the piece, passes the turn
push(b, m) ==
    [pl |-> [b.pl EXCEPT ![m.from_square] = NoPiece,
                         ![m.to_square] = b.pl[m.from_square]],
     turn |-> Opp(b.turn),
     move_stack |-> Append(b.move_stack, m),
     stack |-> Append(b.stack, b.pl)]

\* board.pop(): restores the state saved by the last push
pop(b) ==
    [pl |-> b.stack[Len(b.stack)],
     turn |-> Opp(b.turn),
     move_stack |-> SubSeq(b.move_stack, 1, Len(b.move_stack) - 1),
     stack |-> SubSeq(b.stack, 1, Len(b.stack) - 1)]

(***************************************************************************)
(* Attacks, check and the legal moves.                                     *)
(***************************************************************************)
OnBoard(f, r) == f \in 0 .. 7 /\ r \in 0 .. 7

\* the piece on (f, r), None off the board
PieceOn(pl, f, r) == IF OnBoard(f, r) THEN pl[square(f, r)] ELSE NoPiece

KnightSteps == {<<1, 2>>, <<2, 1>>, <<2, -1>>, <<1, -2>>,
                <<-1, -2>>, <<-2, -1>>, <<-2, 1>>, <<-1, 2>>}
KingSteps == {<<1, 0>>, <<1, 1>>, <<0, 1>>, <<-1, 1>>,
              <<-1, 0>>, <<-1, -1>>, <<0, -1>>, <<1, -1>>}
DiagonalSteps == {<<1, 1>>, <<-1, 1>>, <<-1, -1>>, <<1, -1>>}
StraightSteps == {<<1, 0>>, <<0, 1>>, <<-1, 0>>, <<0, -1>>}

\* the first piece met from (f, r) in direction d, None when the ray runs off
RECURSIVE FirstOnRay(_, _, _, _)
FirstOnRay(pl, f, r, d) ==
    IF ~OnBoard(f + d[1], r + d[2]) THEN NoPiece
    ELSE IF pl[square(f + d[1], r + d[2])] # NoPiece
         THEN pl[square(f + d[1], r + d[2])]
         ELSE FirstOnRay(pl, f + d[1], r + d[2], d)

\* board.is_attacked_by(color, square)
is_attacked_by(pl, color, sq) ==
    LET f == square_file(sq)
        r == square_rank(sq)
        back == IF color = WHITE THEN -1 ELSE 1
    IN  \/ \E d \in {-1, 1} : PieceOn(pl, f + d, r + back) = Symbol(PAWN, color)
        \/ \E d \in KnightSteps : PieceOn(pl, f + d[1], r + d[2]) = Symbol(KNIGHT, color)
        \/ \E d \in KingSteps : PieceOn(pl, f + d[1], r + d[2]) = Symbol(KING, color)
        \/ \E d \in DiagonalSteps :
              FirstOnRay(pl, f, r, d) \in {Symbol(BISHOP, color), Symbol(QUEEN, color)}
        \/ \E d \in StraightSteps :
              FirstOnRay(pl, f, r, d) \in {Symbol(ROOK, color), Symbol(QUEEN, color)}

\* board.king(color): the king's square, None (-1) without a king
NoSquare == 0 - 1
king(pl, color) ==
    IF \E sq \in SQUARES : pl[sq] = Symbol(KING, color)
    THEN CHOOSE sq \in SQUARES : pl[sq] = Symbol(KING, color)
    ELSE NoSquare

\* the king on king_square is attacked by the other side
KingAttacked(pl, color, king_square) ==
    king_square # NoSquare /\ is_attacked_by(pl, Opp(color), king_square)

InCheck(pl, color) == KingAttacked(pl, color, king(pl, color))

\* board.is_check(): the side to move is in check
is_check(b) == InCheck(b.pl, b.turn)

Sign(x) == IF x > 0 THEN 1 ELSE IF x < 0 THEN -1 ELSE 0

\* the squares strictly between from and from + (df, dr) are empty
PathClear(pl, from, df, dr) ==
    \A k \in 1 .. Max2(Abs(df), Abs(dr)) - 1 :
       pl[square(square_file(from) + k * Sign(df),
                 square_rank(from) + k * Sign(dr))] = NoPiece

\* a piece of type t of the side to move may go by (df, dr) from from to a
\* square that holds target
Reaches(pl, turn, t, from, df, dr, target) ==
    CASE t = PAWN ->
           /\ square_rank(from) + dr \notin {0, 7}
           /\ \/ df = 0 /\ dr = (IF turn = WHITE THEN 1 ELSE -1) /\ target = NoPiece
              \/ /\ df = 0
                 /\ dr = (IF turn = WHITE THEN 2 ELSE -2)
                 /\ square_rank(from) = (IF turn = WHITE THEN 1 ELSE 6)
                 /\ target = NoPiece
                 /\ PathClear(pl, from, df, dr)
              \/ Abs(df) = 1 /\ dr = (IF turn = WHITE THEN 1 ELSE -1) /\ target # NoPiece
      [] t = KNIGHT -> {Abs(df), Abs(dr)} = {1, 2}
      [] t = KING -> Max2(Abs(df), Abs(dr)) = 1
      [] t = BISHOP -> Abs(df) = Abs(dr) /\ PathClear(pl, from, df, dr)
      [] t = ROOK -> (df = 0 \/ dr = 0) /\ PathClear(pl, from, df, dr)
      [] t = QUEEN -> (Abs(df) = Abs(dr) \/ df = 0 \/ dr = 0) /\ PathClear(pl, from, df, dr)

\* board.is_pseudo_legal(move), without castling, en passant and promotion
is_pseudo_legal(b, m) ==
    /\ m # NullMove
    /\ b.pl[m.from_square] # NoPiece
    /\ PieceColor(b.pl[m.from_square]) = b.turn
    /\ b.pl[m.to_square] = NoPiece \/ PieceColor(b.pl[m.to_square]) # b.turn
    /\ Reaches(b.pl, b.turn, PieceType(b.pl[m.from_square]), m.from_square,
               square_file(m.to_square) - square_file(m.from_square),
               square_rank(m.to_square) - square_rank(m.from_square),
               b.pl[m.to_square])

\* the candidate moves, in the order python-chess generates moves: piece
\* moves by descending origin, pawn captures, then pawn advances
Universe ==
    << Move(62, 45),    \* g8f6
       Move(61, 54),    \* f8g7
       Move(45, 35),    \* f6d5
       Move(18, 35),    \* c3d5
       Move(1, 18),     \* b1c3
       Move(35, 26),    \* d5c4
       Move(26, 35),    \* c4d5
       Move(54, 46),    \* g7g6
       Move(51, 35),    \* d7d5
       Move(12, 28),    \* e2e4
       Move(10, 26) >>  \* c2c4

UniverseSet == {Universe[i] : i \in 1 .. Len(Universe)}

\* move in board.legal_moves
is_legal(b, m) ==
    /\ m \in UniverseSet
    /\ is_pseudo_legal(b, m)
    /\ ~InCheck(push(b, m).pl, b.turn)

\* list(board.legal_moves)
legal_moves(b) == SelectSeq(Universe, LAMBDA m : is_legal(b, m))

\* board.is_capture(move)
is_capture(b, m) == b.pl[m.to_square] # NoPiece

is_checkmate(b) == is_check(b) /\ legal_moves(b) = <<>>

is_stalemate(b) == ~is_check(b) /\ legal_moves(b) = <<>>

Count(pl, symbols) == Cardinality({sq \in SQUARES : pl[sq] \in symbols})

SquareShade(sq) == (square_file(sq) + square_rank(sq)) % 2

\* board.has_insufficient_material(color)
has_insufficient_material(pl, color) ==
    LET own == IF color = WHITE THEN WhiteSymbols ELSE BlackSymbols
        theirs == IF color = WHITE THEN BlackSymbols ELSE WhiteSymbols
    IN  IF \E sq \in SQUARES : pl[sq] \in {Symbol(PAWN, color), Symbol(ROOK, color),
                                           Symbol(QUEEN, color)}
        THEN FALSE
        ELSE IF \E sq \in SQUARES : pl[sq] = Symbol(KNIGHT, color)
        THEN /\ Count(pl, own) <= 2
             /\ Count(pl, theirs \ {Symbol(KING, Opp(color)), Symbol(QUEEN, Opp(color))}) = 0
        ELSE IF \E sq \in SQUARES : pl[sq] = Symbol(BISHOP, color)
        THEN /\ Cardinality({SquareShade(sq) : sq \in {s \in SQUARES : pl[s] \in {"B", "b"}}}) = 1
             /\ Count(pl, {"P", "p", "N", "n"}) = 0
        ELSE TRUE

is_insufficient_material(b) ==
    has_insufficient_material(b.pl, WHITE) /\ has_insufficient_material(b.pl, BLACK)

\* board.is_game_over(); the move-counter and repetition draws need longer
\* games than the model plays
is_game_over(b) == is_checkmate(b) \/ is_stalemate(b) \/ is_insufficient_material(b)

(***************************************************************************)
(* The positions a session meets.  The evaluation, the thematic filter and *)
(* the search are functions of the position they are given and of nothing  *)
(* else in the session, so what they do on the positions below is          *)
(* tabulated once; on any other position they are computed directly.       *)
(***************************************************************************)
Range(seq) == {seq[i] : i \in 1 .. Len(seq)}

\* the board after the moves are pushed onto b in order
RECURSIVE Replay(_, _)
Replay(b, moves) ==
    IF moves = <<>> THEN b ELSE Replay(push(b, Head(moves)), Tail(moves))

\* the legal lines of at most n moves that start on board b
RECURSIVE LinesFrom(_, _)
LinesFrom(b, n) ==
    IF n = 0 THEN {<<>>}
    ELSE {<<>>} \cup UNION {{<<m>> \o l : l \in LinesFrom(push(b, m), n - 1)}
                            : m \in Range(legal_moves(b))}

\* the notations requests carry: four positions and a malformed notation
FenInputs == {FEN_C4_D5, FEN_MATE, FEN_NXD5, FEN_KNIGHT_DOWN, "rnbqkbnr/pppppppp w"}

\* the boards of the games of at most MaxHist moves and of the notations
Positions ==
    {Replay(Board(STARTING_FEN), l) : l \in LinesFrom(Board(STARTING_FEN), MaxHist)}
    \cup {Board(fen) : fen \in {f \in FenInputs : FenParses(f)}}

(***************************************************************************)
(* The engine's tables (src/chess_engine.py).                              *)
(***************************************************************************)
PIECE_VALUES ==
    (PAWN :> 100) @@ (KNIGHT :> 320) @@ (BISHOP :> 330)
    @@ (ROOK :> 500) @@ (QUEEN :> 900) @@ (KING :> 20000)

PAWN_TABLE ==
    <<   0,   0,   0,   0,   0,   0,   0,   0,
        50,  50,  50,  50,  50,  50,  50,  50,
        10,  10,  20,  30,  30,  20,  10,  10,
         5,   5,  10,  25,  25,  10,   5,   5,
         0,   0,   0,  20,  20,   0,   0,   0,
         5,  -5, -10,   0,   0, -10,  -5,   5,
         5,  10,  10, -20, -20,  10,  10,   5,
         0,   0,   0,   0,   0,   0,   0,   0 >>

KNIGHT_TABLE ==
    << -50, -40, -30, -30, -30, -30, -40, -50,
       -40, -20,   0,   0,   0,   0, -20, -40,
       -30,   0,  10,  15,  15,  10,   0, -30,
       -30,   5,  15,  20,  20,  15,   5, -30,
       -30,   0,  15,  20,  20,  15,   0, -30,
       -30,   5,  10,  15,  15,  10,   5, -30,
       -40, -20,   0,   5,   5,   0, -20, -40,
       -50, -40, -30, -30, -30, -30, -40, -50 >>

BISHOP_TABLE ==
    << -20, -10, -10, -10, -10, -10, -10, -20,
       -10,   0,   0,   0,   0,   0,   0, -10,
       -10,   0,   5,  10,  10,   5,   0, -10,
       -10,   5,   5,  10,  10,   5,   5, -10,
       -10,   0,  10,  10,  10,  10,   0, -10,
       -10,  10,  10,  10,  10,  10,  10, -10,
       -10,   5,   0,   0,   0,   0,   5, -10,
       -20, -10, -10, -10, -10, -10, -10, -20 >>

ROOK_TABLE ==
    <<   0,   0,   0,   0,   0,   0,   0,   0,
         5,  10,  10,  10,  10,  10,  10,   5,
        -5,   0,   0,   0,   0,   0,   0,  -5,
        -5,   0,   0,   0,   0,   0,   0,  -5,
        -5,   0,   0,   0,   0,   0,   0,  -5,
        -5,   0,   0,   0,   0,   0,   0,  -5,
        -5,   0,   0,   0,   0,   0,   0,  -5,
         0,   0,   0,   5,   5,   0,   0,   0 >>

QUEEN_TABLE ==
    << -20, -10, -10,  -5,  -5, -10, -10, -20,
       -10,   0,   0,   0,   0,   0,   0, -10,
       -10,   0,   5,   5,   5,   5,   0, -10,
        -5,   0,   5,   5,   5,   5,   0,  -5,
         0,   0,   5,   5,   5,   5,   0,  -5,
       -10,   5,   5,   5,   5,   5,   0, -10,
       -10,   0,   5,   0,   0,   0,   0, -10,
       -20, -10, -10,  -5,  -5, -10, -10, -20 >>

KING_MIDDLE_TABLE ==
    << -30, -40, -40, -50, -50, -40, -40, -30,
       -30, -40, -40, -50, -50, -40, -40, -30,
       -30, -40, -40, -50, -50, -40, -40, -30,
       -30, -40, -40, -50, -50, -40, -40, -30,
       -20, -30, -30, -40, -40, -30, -30, -20,
       -10, -20, -20, -20, -20, -20, -20, -10,
        20,  20,   0,   0,   0,   0,  20,  20,
        20,  30,  10,   0,   0,  10,  30,  20 >>

KING_END_TABLE ==
    << -50, -40, -30, -20, -20, -30, -40, -50,
       -30, -20, -10,   0,   0, -10, -20, -30,
       -30, -10,  20,  30,  30,  20, -10, -30,
       -30, -10,  30,  40,  40,  30, -10, -30,
       -30, -10,  30,  40,  40,  30, -10, -30,
       -30, -10,  20,  30,  30,  20, -10, -30,
       -30, -30,   0,   0,   0,   0, -30, -30,
       -50, -30, -30, -30, -30, -30, -30, -50 >>

ENGLISH_OPENING ==
    ("" :> << "c2c4" >>)
    @@ ("e7e5" :> << "b1c3", "g2g3" >>)
    @@ ("e7e5 b1c3" :> << "g8f6", "b8c6" >>)
    @@ ("e7e5 g2g3" :> << "g8f6", "b8c6" >>)
    @@ ("c7c5" :> << "b1c3", "g2g3" >>)
    @@ ("c7c5 b1c3" :> << "b8c6", "g8f6" >>)
    @@ ("g8f6" :> << "b1c3", "g2g3" >>)
    @@ ("g8f6 b1c3" :> << "e7e5", "d7d5" >>)
    @@ ("d7d5" :> << "c4d5", "b1c3" >>)
    @@ ("e7e6" :> << "b1c3", "g2g3", "g1f3" >>)

ENGLISH_THEMATIC_MOVES ==
    << "b1c3", "g2g3", "f1g2", "g1f3", "e1g1", "d2d3", "e2e4", "b2b3" >>

MODERN_DEFENSE ==
    ("e2e4" :> << "g7g6" >>)
    @@ ("e2e4 g7g6" :> << "d7d6", "f8g7" >>)
    @@ ("e2e4 g7g6 d2d4" :> << "f8g7" >>)
    @@ ("e2e4 g7g6 d2d4 f8g7" :> << "b8c6", "d7d6" >>)
    @@ ("e2e4 g7g6 g1f3" :> << "f8g7" >>)
    @@ ("e2e4 g7g6 g1f3 f8g7" :> << "d7d6", "c7c5" >>)
    @@ ("e2e4 g7g6 b1c3" :> << "f8g7" >>)
    @@ ("e2e4 g7g6 b1c3 f8g7" :> << "d7d6", "c7c5" >>)
    @@ ("d2d4" :> << "g7g6" >>)
    @@ ("d2d4 g7g6" :> << "f8g7" >>)
    @@ ("d2d4 g7g6 e2e4" :> << "f8g7" >>)
    @@ ("d2d4 g7g6 c2c4" :> << "f8g7" >>)
    @@ ("g1f3" :> << "g7g6" >>)
    @@ ("c2c4" :> << "g7g6" >>)

MODERN_THEMATIC_MOVES ==
    << "g7g6", "f8g7", "d7d6", "b8d7", "e7e5", "c7c6", "a7a6", "b7b5" >>

\* float('inf'): above every score the evaluation produces
INF == 1000000

\* self.safety_threshold
safety_threshold == -200

(***************************************************************************)
(* Evaluation.  evaluate_mobility writes board.turn and restores it, so    *)
(* the evaluation returns the board it leaves behind with its value.       *)
(***************************************************************************)
is_endgame(b) ==
    LET queens == Count(b.pl, {"Q"}) + Count(b.pl, {"q"})
        minor_pieces == Count(b.pl, {"N"}) + Count(b.pl, {"B"})
                        + Count(b.pl, {"n"}) + Count(b.pl, {"b"})
    IN  queens = 0 \/ (queens = 2 /\ minor_pieces <= 2)

\* the table get_piece_square_value reads for a piece type
PieceTable(b, piece_type) ==
    CASE piece_type = KING -> IF is_endgame(b) THEN KING_END_TABLE ELSE KING_MIDDLE_TABLE
      [] piece_type = PAWN -> PAWN_TABLE
      [] piece_type = KNIGHT -> KNIGHT_TABLE
      [] piece_type = BISHOP -> BISHOP_TABLE
      [] piece_type = ROOK -> ROOK_TABLE
      [] piece_type = QUEEN -> QUEEN_TABLE

get_piece_square_value(b, piece, sq) ==
    PieceTable(b, PieceType(piece))[(IF PieceColor(piece) = WHITE THEN 63 - sq ELSE sq) + 1]

evaluate_mobility(b) ==
    [value |-> (Len(legal_moves([b EXCEPT !.turn = WHITE]))
                - Len(legal_moves([b EXCEPT !.turn = BLACK]))) * 5,
     board |-> [b EXCEPT !.turn = b.turn]]

ShieldBonus(b, color) ==
    LET king_square == king(b.pl, color)
        king_file == square_file(king_square)
        king_rank == square_rank(king_square)
        pawn_direction == IF color = WHITE THEN 1 ELSE -1
    IN  IF king_square = NoSquare THEN 0
        ELSE 10 * Cardinality({file_offset \in {-1, 0, 1} :
                 /\ OnBoard(king_file + file_offset, king_rank + pawn_direction)
                 /\ piece_at(b, square(king_file + file_offset, king_rank + pawn_direction))
                      = Symbol(PAWN, color)})

evaluate_king_safety(b) == ShieldBonus(b, WHITE) - ShieldBonus(b, BLACK)

\* the material and piece-square sum over the squares sq .. 63
RECURSIVE MaterialFrom(_, _)
MaterialFrom(b, sq) ==
    IF sq > 63 THEN 0
    ELSE LET piece == piece_at(b, sq)
         IN  (IF piece = NoPiece THEN 0
              ELSE (IF PieceColor(piece) = WHITE THEN 1 ELSE -1)
                   * (PIECE_VALUES[PieceType(piece)] + get_piece_square_value(b, piece, sq)))
             + MaterialFrom(b, sq + 1)

evaluate(b) ==
    IF is_checkmate(b)
    THEN [value |-> IF b.turn = WHITE THEN -30000 ELSE 30000, board |-> b]
    ELSE IF is_stalemate(b) \/ is_insufficient_material(b)
    THEN [value |-> 0, board |-> b]
    ELSE LET Score(mobility) ==
                 [value |-> MaterialFrom(b, 0)
                            + mobility.value
                            + (IF ~is_endgame(mobility.board)
                               THEN evaluate_king_safety(mobility.board)
                               ELSE 0)
                            + (IF is_check(mobility.board)
                               THEN (IF mobility.board.turn = WHITE THEN -30 ELSE 30)
                               ELSE 0),
                  board |-> mobility.board]
         IN  Score(evaluate_mobility(b))

\* get_normalized_eval, in hundredths: round(max(-10.0, min(10.0, raw / 100.0)), 2)
get_normalized_eval(b) ==
    LET Normalized(raw_eval) ==
            [value |-> Max2(-1000, Min2(1000, raw_eval.value)), board |-> raw_eval.board]
    IN  Normalized(evaluate(b))

\* get_normalized_eval on the tabulated positions
NormalizedEvalTable == {<<b, get_normalized_eval(b)>> : b \in Positions}

NormalizedEvalAt(b) ==
    IF b \in Positions
    THEN (CHOOSE row \in NormalizedEvalTable : row[1] = b)[2]
    ELSE get_normalized_eval(b)

(***************************************************************************)
(* Move ordering.  Every operator that pushes moves on the shared board    *)
(* returns the board it leaves behind.                                     *)
(***************************************************************************)
\* the score order_moves gives one move, and the board after its push and pop
MoveScore(b, m) ==
    LET captured == piece_at(b, m.to_square)
        attacker == piece_at(b, m.from_square)
        capture_score ==
            IF is_capture(b, m) /\ captured # NoPiece /\ attacker # NoPiece
            THEN 10 * PIECE_VALUES[PieceType(captured)] - PIECE_VALUES[PieceType(attacker)]
            ELSE 0
        promotion_score ==
            IF m.promotion # NoPromotion THEN PIECE_VALUES[m.promotion] ELSE 0
        to_file == square_file(m.to_square)
        to_rank == square_rank(m.to_square)
        \* int(((3.5 - |file - 3.5|) + (3.5 - |rank - 3.5|)) * 5)
        center_score == 35 - (5 * (Abs(2 * to_file - 7) + Abs(2 * to_rank - 7))) \div 2
        Scored(pushed) ==
            [score |-> capture_score + promotion_score
                       + (IF is_check(pushed) THEN 50 ELSE 0) + center_score,
             board |-> pop(pushed)]
    IN  Scored(push(b, m))

\* scored_moves after the moves i .. Len(moves) have been scored
RECURSIVE ScoreMoves(_, _, _, _)
ScoreMoves(b, moves, i, scored) ==
    IF i > Len(moves) THEN [scored |-> scored, board |-> b]
    ELSE LET Rest(r) ==
                 ScoreMoves(r.board, moves, i + 1, Append(scored, <<r.score, moves[i]>>))
         IN  Rest(MoveScore(b, moves[i]))

\* list.sort(key = score, reverse = True): stable, highest score first
RECURSIVE InsertByScore(_, _)
InsertByScore(sorted, item) ==
    IF sorted = <<>> THEN <<item>>
    ELSE IF sorted[Len(sorted)][1] >= item[1] THEN Append(sorted, item)
    ELSE Append(InsertByScore(SubSeq(sorted, 1, Len(sorted) - 1), item),
                sorted[Len(sorted)])

RECURSIVE SortByScore(_, _, _)
SortByScore(scored, i, sorted) ==
    IF i > Len(scored) THEN sorted
    ELSE SortByScore(scored, i + 1, InsertByScore(sorted, scored[i]))

order_moves(b, moves) ==
    LET Ordered(r) ==
            LET Moves(sorted) ==
                    [moves |-> [i \in 1 .. Len(sorted) |-> sorted[i][2]], board |-> r.board]
            IN  Moves(SortByScore(r.scored, 1, <<>>))
    IN  Ordered(ScoreMoves(b, moves, 1, <<>>))

(***************************************************************************)
(* Quiescence and minimax.  nodes is self.nodes_searched.  The clock says  *)
(* at which node visits the time budget is found exceeded: the elapsed     *)
(* time only grows, so once exceeded it stays exceeded.                    *)
(***************************************************************************)
Clocks ==
    {[expires |-> FALSE, after |-> 0]}
    \cup {[expires |-> TRUE, after |-> k] : k \in 0 .. MaxClock}

\* a clock under which the budget is never found exceeded
NoClock == [expires |-> FALSE, after |-> 0]

\* time.time() - self.start_time > self.max_time, read at node visit n
TimeExceeded(clock, n) == clock.expires /\ n > clock.after

RECURSIVE quiescence(_, _, _, _, _)
RECURSIVE QuiescenceLoop(_, _, _, _, _, _, _)
RECURSIVE StandPat(_, _, _, _, _)

\* quiescence once self.evaluate() has returned e
StandPat(e, alpha, beta, depth, nodes) ==
    LET stand_pat == IF e.board.turn = BLACK THEN -e.value ELSE e.value
        alpha1 == IF alpha < stand_pat THEN stand_pat ELSE alpha
    IN  IF stand_pat >= beta
        THEN [score |-> beta, board |-> e.board, nodes |-> nodes + 1]
        ELSE IF depth > 4
        THEN [score |-> alpha1, board |-> e.board, nodes |-> nodes + 1]
        ELSE QuiescenceLoop(e.board, legal_moves(e.board), 1, alpha1, beta,
                            depth, nodes + 1)

quiescence(b, alpha, beta, depth, nodes) ==
    StandPat(evaluate(b), alpha, beta, depth, nodes)

QuiescenceLoop(b, moves, i, alpha, beta, depth, nodes) ==
    IF i > Len(moves) THEN [score |-> alpha, board |-> b, nodes |-> nodes]
    ELSE IF ~is_capture(b, moves[i])
    THEN QuiescenceLoop(b, moves, i + 1, alpha, beta, depth, nodes)
    ELSE LET Rest(r) ==
                 IF -r.score >= beta
                 THEN [score |-> beta, board |-> pop(r.board), nodes |-> r.nodes]
                 ELSE QuiescenceLoop(pop(r.board), moves, i + 1,
                                     IF -r.score > alpha THEN -r.score ELSE alpha,
                                     beta, depth, r.nodes)
         IN  Rest(quiescence(push(b, moves[i]), -beta, -alpha, depth + 1, nodes))

RECURSIVE minimax(_, _, _, _, _, _, _)
RECURSIVE MaximizingLoop(_, _, _, _, _, _, _, _, _, _, _)
RECURSIVE MinimizingLoop(_, _, _, _, _, _, _, _, _, _, _)

\* Variant of minimax that reads the clock at the root of the search only
minimax_checking_root_only(b, depth, alpha, beta, maximizing, nodes, clock) ==
    LET Aborted(e) ==
            [score |-> IF maximizing THEN e.value ELSE -e.value,
             move |-> NoMove, board |-> e.board, nodes |-> nodes + 1, aborted |-> TRUE]
        Horizon(q) ==
            [score |-> IF q.board.turn = WHITE THEN q.score ELSE -q.score,
             move |-> NoMove, board |-> q.board, nodes |-> q.nodes, aborted |-> FALSE]
        Loop(ordered) ==
            IF maximizing
            THEN MaximizingLoop(ordered.board, ordered.moves, 1, depth, alpha, beta,
                                -INF, NoMove, nodes + 1, clock, FALSE)
            ELSE MinimizingLoop(ordered.board, ordered.moves, 1, depth, alpha, beta,
                                INF, NoMove, nodes + 1, clock, FALSE)
    IN  IF nodes = 0 /\ TimeExceeded(clock, nodes + 1) THEN Aborted(evaluate(b))
        ELSE IF depth = 0 \/ is_game_over(b)
        THEN Horizon(quiescence(b, alpha, beta, 0, nodes + 1))
        ELSE Loop(order_moves(b, legal_moves(b)))

minimax(b, depth, alpha, beta, maximizing, nodes, clock) ==
    LET Aborted(e) ==
            [score |-> IF maximizing THEN e.value ELSE -e.value,
             move |-> NoMove, board |-> e.board, nodes |-> nodes + 1, aborted |-> TRUE]
        Horizon(q) ==
            [score |-> IF q.board.turn = WHITE THEN q.score ELSE -q.score,
             move |-> NoMove, board |-> q.board, nodes |-> q.nodes, aborted |-> FALSE]
        Loop(ordered) ==
            IF maximizing
            THEN MaximizingLoop(ordered.board, ordered.moves, 1, depth, alpha, beta,
                                -INF, NoMove, nodes + 1, clock, FALSE)
            ELSE MinimizingLoop(ordered.board, ordered.moves, 1, depth, alpha, beta,
                                INF, NoMove, nodes + 1, clock, FALSE)
    IN  IF TimeExceeded(clock, nodes + 1) THEN Aborted(evaluate(b))
        ELSE IF depth = 0 \/ is_game_over(b)
        THEN Horizon(quiescence(b, alpha, beta, 0, nodes + 1))
        ELSE Loop(order_moves(b, legal_moves(b)))

\* Variant of MaximizingLoop that leaves the loop at beta <= alpha before the pop
MaximizingLoopBreakingFirst(b, moves, i, depth, alpha, beta, max_eval, best_move, nodes, clock, aborted) ==
    IF i > Len(moves)
    THEN [score |-> max_eval, move |-> best_move, board |-> b, nodes |-> nodes,
          aborted |-> aborted]
    ELSE LET Rest(r) ==
                 LET better == r.score > max_eval
                     max_eval1 == IF better THEN r.score ELSE max_eval
                     best_move1 == IF better THEN moves[i] ELSE best_move
                     alpha1 == Max2(alpha, r.score)
                 IN  IF beta <= alpha1
                     THEN [score |-> max_eval1, move |-> best_move1, board |-> r.board,
                           nodes |-> r.nodes, aborted |-> aborted \/ r.aborted]
                     ELSE MaximizingLoop(pop(r.board), moves, i + 1, depth, alpha1, beta,
                                         max_eval1, best_move1, r.nodes, clock,
                                         aborted \/ r.aborted)
         IN  Rest(minimax(push(b, moves[i]), depth - 1, alpha, beta, FALSE, nodes, clock))

MaximizingLoop(b, moves, i, depth, alpha, beta, max_eval, best_move, nodes, clock, aborted) ==
    IF i > Len(moves)
    THEN [score |-> max_eval, move |-> best_move, board |-> b, nodes |-> nodes,
          aborted |-> aborted]
    ELSE LET Rest(r) ==
                 LET better == r.score > max_eval
                     max_eval1 == IF better THEN r.score ELSE max_eval
                     best_move1 == IF better THEN moves[i] ELSE best_move
                     alpha1 == Max2(alpha, r.score)
                 IN  IF beta <= alpha1
                     THEN [score |-> max_eval1, move |-> best_move1, board |-> pop(r.board),
                           nodes |-> r.nodes, aborted |-> aborted \/ r.aborted]
                     ELSE MaximizingLoop(pop(r.board), moves, i + 1, depth, alpha1, beta,
                                         max_eval1, best_move1, r.nodes, clock,
                                         aborted \/ r.aborted)
         IN  Rest(minimax(push(b, moves[i]), depth - 1, alpha, beta, FALSE, nodes, clock))

MinimizingLoop(b, moves, i, depth, alpha, beta, min_eval, best_move, nodes, clock, aborted) ==
    IF i > Len(moves)
    THEN [score |-> min_eval, move |-> best_move, board |-> b, nodes |-> nodes,
          aborted |-> aborted]
    ELSE LET Rest(r) ==
                 LET better == r.score < min_eval
                     min_eval1 == IF better THEN r.score ELSE min_eval
                     best_move1 == IF better THEN moves[i] ELSE best_move
                     beta1 == Min2(beta, r.score)
                 IN  IF beta1 <= alpha
                     THEN [score |-> min_eval1, move |-> best_move1, board |-> pop(r.board),
                           nodes |-> r.nodes, aborted |-> aborted \/ r.aborted]
                     ELSE MinimizingLoop(pop(r.board), moves, i + 1, depth, alpha, beta1,
                                         min_eval1, best_move1, r.nodes, clock,
                                         aborted \/ r.aborted)
         IN  Rest(minimax(push(b, moves[i]), depth - 1, alpha, beta, TRUE, nodes, clock))

(***************************************************************************)
(* The opening advisor.  random.choice and random.random are choices of    *)
(* the environment: an operator that draws returns the set of the          *)
(* outcomes it may produce.                                                *)
(***************************************************************************)
get_move_history_uci(history) == [i \in 1 .. Len(history) |-> uci(history[i])]

\* " ".join(codes)
RECURSIVE JoinSpace(_)
JoinSpace(codes) ==
    IF codes = <<>> THEN ""
    ELSE IF Len(codes) = 1 THEN codes[1]
    ELSE codes[1] \o " " \o JoinSpace(Tail(codes))

\* thematic_legal after the legal moves i .. Len(moves) have been tried
RECURSIVE ThematicLoop(_, _, _, _, _, _)
ThematicLoop(b, color, thematic_moves, moves, i, thematic_legal) ==
    IF i > Len(moves) THEN [thematic_legal |-> thematic_legal, board |-> b]
    ELSE IF uci(moves[i]) \notin Range(thematic_moves)
    THEN ThematicLoop(b, color, thematic_moves, moves, i + 1, thematic_legal)
    ELSE LET perspective == IF color = WHITE THEN 1 ELSE -1
             Rest(e) ==
                 ThematicLoop(pop(e.board), color, thematic_moves, moves, i + 1,
                              IF e.value * perspective >= safety_threshold
                              THEN Append(thematic_legal, uci(moves[i]))
                              ELSE thematic_legal)
         IN  Rest(evaluate(push(b, moves[i])))

\* random.random() < 0.7 may hold or not, so None is always an outcome
_get_thematic_move(b, color, thematic_moves) ==
    LET Draw(r) ==
            {[move |-> m, board |-> r.board] : m \in Range(r.thematic_legal)}
            \cup {[move |-> None, board |-> r.board]}
    IN  Draw(ThematicLoop(b, color, thematic_moves, legal_moves(b), 1, <<>>))

ThematicMovesOf(color) ==
    IF color = WHITE THEN ENGLISH_THEMATIC_MOVES ELSE MODERN_THEMATIC_MOVES

\* _get_thematic_move on the tabulated positions, for either side's list
ThematicTable ==
    {<<k, _get_thematic_move(k[1], k[2], ThematicMovesOf(k[2]))>>
     : k \in Positions \X {WHITE, BLACK}}

ThematicMoveAt(b, color, thematic_moves) ==
    IF /\ b \in Positions
       /\ color \in {WHITE, BLACK}
       /\ thematic_moves = ThematicMovesOf(color)
    THEN (CHOOSE row \in ThematicTable : row[1] = <<b, color>>)[2]
    ELSE _get_thematic_move(b, color, thematic_moves)

\* Variant of get_opening_move that never consults the opening book
get_opening_move_without_book(b, history, color) ==
    IF color \in {WHITE, BLACK} /\ Len(history) < 12
    THEN ThematicMoveAt(b, color, ThematicMovesOf(color))
    ELSE {[move |-> None, board |-> b]}

get_opening_move(b, history, color) ==
    LET move_sequence == JoinSpace(get_move_history_uci(history))
        move_count == Len(history)
    IN  IF color = WHITE
        THEN IF move_sequence \in DOMAIN ENGLISH_OPENING
             THEN {[move |-> m, board |-> b] : m \in Range(ENGLISH_OPENING[move_sequence])}
             ELSE IF move_count < 12
             THEN ThematicMoveAt(b, color, ENGLISH_THEMATIC_MOVES)
             ELSE {[move |-> None, board |-> b]}
        ELSE IF color = BLACK
        THEN IF move_sequence \in DOMAIN MODERN_DEFENSE
             THEN {[move |-> m, board |-> b] : m \in Range(MODERN_DEFENSE[move_sequence])}
             ELSE IF move_count < 12
             THEN ThematicMoveAt(b, color, MODERN_THEMATIC_MOVES)
             ELSE {[move |-> None, board |-> b]}
        ELSE {[move |-> None, board |-> b]}

(***************************************************************************)
(* The move selector.                                                      *)
(***************************************************************************)
\* safe_moves after the legal moves i .. Len(moves) have been tried
RECURSIVE SafeMovesLoop(_, _, _, _, _)
SafeMovesLoop(b, perspective, moves, i, safe_moves) ==
    IF i > Len(moves) THEN [safe_moves |-> safe_moves, board |-> b]
    ELSE LET Rest(e) ==
                 SafeMovesLoop(pop(e.board), perspective, moves, i + 1,
                               IF e.value * perspective >= safety_threshold
                               THEN Append(safe_moves, <<e.value * perspective, moves[i]>>)
                               ELSE safe_moves)
         IN  Rest(evaluate(push(b, moves[i])))

\* the re-scan of the safety net: the best safe move, best_move without one
SafestMove(b, perspective, best_move) ==
    LET Best(r) ==
            LET First(sorted) ==
                    [move |-> IF sorted # <<>> THEN sorted[1][2] ELSE best_move,
                     board |-> r.board]
            IN  First(SortByScore(r.safe_moves, 1, <<>>))
    IN  Best(SafeMovesLoop(b, perspective, legal_moves(b), 1, <<>>))

\* the safety net once self.evaluate() has returned post_eval
SafetyNetAfter(post_eval, perspective, best_move) ==
    IF post_eval.value * perspective < safety_threshold
    THEN SafestMove(pop(post_eval.board), perspective, best_move)
    ELSE [move |-> best_move, board |-> pop(post_eval.board)]

\* Variant of SafetyNet that never re-scans
SafetyNetWithoutRescan(b, color, best_move) == [move |-> best_move, board |-> b]

SafetyNet(b, color, best_move) ==
    IF best_move \in {NoMove, NullMove} \/ color = NoColor
    THEN [move |-> best_move, board |-> b]
    ELSE SafetyNetAfter(evaluate(push(b, best_move)),
                        IF color = WHITE THEN 1 ELSE -1, best_move)

\* get_best_move from the search on: what it returns and the board it leaves
\* what get_best_move returns after search s and safety net r
Report(s, r, depth) ==
    [move |-> IF r.move \in {NoMove, NullMove} THEN None ELSE uci(r.move),
     board |-> r.board,
     searched |-> TRUE, aborted |-> s.aborted,
     depth |-> depth, score |-> s.score, nodes |-> s.nodes]

\* Variant of Chosen without the random fallback
ChosenWithoutFallback(s, moves) == {s.move}

\* best_move after the search: its move, else random.choice(legal_moves)
Chosen(s, moves) ==
    IF s.move # NoMove THEN {s.move}
    ELSE IF moves # <<>> THEN Range(moves)
    ELSE {NoMove}

\* get_best_move once minimax has returned s
SelectAfter(s, color, depth) ==
    {Report(s, SafetyNet(s.board, color, best_move), depth)
     : best_move \in Chosen(s, legal_moves(s.board))}

\* the root call of minimax on the tabulated positions
MinimaxTable ==
    {<<b, {<<k, minimax(b, k[1], -INF, INF, b.turn = WHITE, 0, k[2])>>
           : k \in (1 .. MaxDepth) \X Clocks}>>
     : b \in Positions}

RootSearch(b, depth, clock) ==
    IF /\ b \in Positions
       /\ depth \in 1 .. MaxDepth
       /\ clock \in Clocks
    THEN (CHOOSE found \in (CHOOSE row \in MinimaxTable : row[1] = b)[2]
             : found[1] = <<depth, clock>>)[2]
    ELSE minimax(b, depth, -INF, INF, b.turn = WHITE, 0, clock)

SearchedMove(b, color, depth, clock) ==
    SelectAfter(RootSearch(b, Max2(1, Min2(5, depth)), clock),
                color, Max2(1, Min2(5, depth)))

\* SearchedMove on the tabulated positions
SearchTable ==
    {<<b, {<<k, SearchedMove(b, k[1], k[2], k[3])>>
           : k \in {WHITE, BLACK, NoColor} \X (1 .. MaxDepth) \X Clocks}>>
     : b \in Positions}

SearchedMoveAt(b, color, depth, clock) ==
    IF /\ b \in Positions
       /\ depth \in 1 .. MaxDepth
       /\ clock \in Clocks
    THEN (CHOOSE found \in (CHOOSE row \in SearchTable : row[1] = b)[2]
             : found[1] = <<color, depth, clock>>)[2]
    ELSE SearchedMove(b, color, depth, clock)

NotSearched(move, b) ==
    [move |-> move, board |-> b,
     searched |-> FALSE, aborted |-> FALSE, depth |-> 0, score |-> 0, nodes |-> 0]

\* board.is_game_over() on the tabulated positions
GameOverTable == {<<b, is_game_over(b)>> : b \in Positions}

GameOverAt(b) ==
    IF b \in Positions
    THEN (CHOOSE row \in GameOverTable : row[1] = b)[2]
    ELSE is_game_over(b)

\* Variant of get_best_move that returns the advisor's move unchecked
get_best_move_trusting_advisor(b, history, color, depth, clock) ==
    IF GameOverAt(b) THEN {NotSearched(None, b)}
    ELSE UNION {IF o.move # None
                THEN {NotSearched(o.move, o.board)}
                ELSE SearchedMoveAt(o.board, color, depth, clock)
                : o \in get_opening_move(b, history, color)}

\* ChessEngine.get_best_move: the outcomes it may produce on board b
get_best_move(b, history, color, depth, clock) ==
    IF GameOverAt(b) THEN {NotSearched(None, b)}
    ELSE UNION {IF /\ o.move # None
                   /\ IsUci(o.move)
                   /\ is_legal(o.board, from_uci(o.move))
                THEN {NotSearched(o.move, o.board)}
                ELSE SearchedMoveAt(o.board, color, depth, clock)
                : o \in get_opening_move(b, history, color)}

(***************************************************************************)
(* The engine session: self is the ChessEngine object.                     *)
(***************************************************************************)
\* ChessEngine.__init__
NewEngine ==
    [board |-> Board(STARTING_FEN), move_history |-> <<>>, redo_stack |-> <<>>,
     ai_color |-> NoColor]

reset(self) ==
    [self EXCEPT !.board = Board(STARTING_FEN), !.move_history = <<>>,
                 !.redo_stack = <<>>, !.ai_color = NoColor]

set_ai_color(self, color) == [self EXCEPT !.ai_color = color]

is_valid_fen(fen) == FenParses(fen)

\* Variant of make_move that clears the redo stack before it validates
make_move_clearing_first(self, move_uci) ==
    IF IsUci(move_uci) /\ is_legal(self.board, from_uci(move_uci))
    THEN [ok |-> TRUE,
          self |-> [self EXCEPT !.board = push(self.board, from_uci(move_uci)),
                                !.move_history = Append(self.move_history, from_uci(move_uci)),
                                !.redo_stack = <<>>]]
    ELSE [ok |-> FALSE, self |-> [self EXCEPT !.redo_stack = <<>>]]

\* Variant of make_move that keeps the redo stack
make_move_keeping_redo(self, move_uci) ==
    IF IsUci(move_uci) /\ is_legal(self.board, from_uci(move_uci))
    THEN [ok |-> TRUE,
          self |-> [self EXCEPT !.board = push(self.board, from_uci(move_uci)),
                                !.move_history = Append(self.move_history, from_uci(move_uci))]]
    ELSE [ok |-> FALSE, self |-> self]

make_move(self, move_uci) ==
    IF IsUci(move_uci) /\ is_legal(self.board, from_uci(move_uci))
    THEN [ok |-> TRUE,
          self |-> [self EXCEPT !.board = push(self.board, from_uci(move_uci)),
                                !.move_history = Append(self.move_history, from_uci(move_uci)),
                                !.redo_stack = <<>>]]
    ELSE [ok |-> FALSE, self |-> self]

\* Variant of undo_move that leaves the board as it is
undo_move_keeping_board(self) ==
    IF self.move_history # <<>>
    THEN LET move == self.move_history[Len(self.move_history)]
         IN  [move |-> uci(move),
              self |-> [self EXCEPT
                          !.move_history = SubSeq(self.move_history, 1,
                                                  Len(self.move_history) - 1),
                          !.redo_stack = Append(self.redo_stack, move)]]
    ELSE [move |-> None, self |-> self]

undo_move(self) ==
    IF self.move_history # <<>>
    THEN LET move == self.move_history[Len(self.move_history)]
         IN  [move |-> uci(move),
              self |-> [self EXCEPT
                          !.move_history = SubSeq(self.move_history, 1,
                                                  Len(self.move_history) - 1),
                          !.redo_stack = Append(self.redo_stack, move),
                          !.board = pop(self.board)]]
    ELSE [move |-> None, self |-> self]

\* Variant of redo_move that does not push the move onto the board
redo_move_keeping_board(self) ==
    IF self.redo_stack # <<>>
    THEN LET move == self.redo_stack[Len(self.redo_stack)]
         IN  [move |-> uci(move),
              self |-> [self EXCEPT
                          !.redo_stack = SubSeq(self.redo_stack, 1, Len(self.redo_stack) - 1),
                          !.move_history = Append(self.move_history, move)]]
    ELSE [move |-> None, self |-> self]

redo_move(self) ==
    IF self.redo_stack # <<>>
    THEN LET move == self.redo_stack[Len(self.redo_stack)]
         IN  [move |-> uci(move),
              self |-> [self EXCEPT
                          !.redo_stack = SubSeq(self.redo_stack, 1, Len(self.redo_stack) - 1),
                          !.board = push(self.board, move),
                          !.move_history = Append(self.move_history, move)]]
    ELSE [move |-> None, self |-> self]

\* get_state: the engine after the state report (its evaluation writes the
\* board's turn and restores it)
get_state(self) == [self EXCEPT !.board = NormalizedEvalAt(self.board).board]

\* Variant of RestoreSession that restores the lists and not the board
RestoreListsOnly(self, original_board, original_history, original_redo) ==
    [self EXCEPT !.move_history = original_history,
                 !.redo_stack = original_redo]

\* the finally block of get_best_move_for_fen
RestoreSession(self, original_board, original_history, original_redo) ==
    [self EXCEPT !.board = original_board,
                 !.move_history = original_history,
                 !.redo_stack = original_redo]

\* ChessEngine.get_best_move_for_fen: the outcomes it may produce
get_best_move_for_fen(self, fen, depth, clock) ==
    IF ~is_valid_fen(fen) THEN {[result |-> None, self |-> self]}
    ELSE LET original_board == self.board
             original_history == self.move_history
             original_redo == self.redo_stack
             scratch == [self EXCEPT !.board = Board(fen)]
         IN  {[result |-> o.move,
               self |-> RestoreSession([scratch EXCEPT !.board = o.board],
                                       original_board, original_history, original_redo)]
              : o \in get_best_move(scratch.board, scratch.move_history,
                                    scratch.ai_color, depth, clock)}

(***************************************************************************)
(* The request handlers of src/app.py: one action per request.  response   *)
(* is what the handler answers: the operation, the status, the error       *)
(* message of a failure, the move a move request reports and, for          *)
(* GET /move, the notation the request named.                              *)
(***************************************************************************)
Self ==
    [board |-> board, move_history |-> move_history, redo_stack |-> redo_stack,
     ai_color |-> ai_color]

Commit(self) ==
    /\ board' = self.board
    /\ move_history' = self.move_history
    /\ redo_stack' = self.redo_stack
    /\ ai_color' = self.ai_color

NoFen == ""

Ok(op, move) == [op |-> op, status |-> 200, error |-> "", move |-> move, fen |-> NoFen]
Failed(op, error) ==
    [op |-> op, status |-> 400, error |-> error, move |-> None, fen |-> NoFen]

UniverseCodes == {uci(m) : m \in UniverseSet}

\* the move codes requests carry: the candidate moves, a pawn advance that
\* is never legal, the null move and two malformed codes
MoveInputs == UniverseCodes \cup {"e2e5", "0000", "e2", "e2-e4"}

Depths == 1 .. MaxDepth

\* what a handler keeps of the outcomes of get_best_move: the move returned
\* and the board left behind.  The depth of the request and the clock of
\* the search are drawn by the environment; outcomes that agree on these
\* two are one step of the session.
Returned(outcomes) == {[move |-> o.move, board |-> o.board] : o \in outcomes}

PlayerColors == {"white", "black"}

Init ==
    /\ board = NewEngine.board
    /\ move_history = NewEngine.move_history
    /\ redo_stack = NewEngine.redo_stack
    /\ ai_color = NewEngine.ai_color
    /\ response = [op |-> "", status |-> 0, error |-> "", move |-> None, fen |-> NoFen]

\* POST /api/new-game
NewGame ==
    \E player_color \in PlayerColors :
        LET engine == set_ai_color(reset(Self),
                                   IF player_color = "white" THEN BLACK ELSE WHITE)
        IN  /\ Commit(get_state(engine))
            /\ response' = Ok("new_game", None)

\* POST /api/move
ApplyMove ==
    \E move_uci \in MoveInputs :
        LET r == make_move(Self, move_uci)
        IN  /\ r.ok => Len(move_history) < MaxHist
            /\ IF ~r.ok
               THEN /\ Commit(r.self)
                    /\ response' = Failed("apply_move", "Invalid move")
               ELSE /\ Commit(get_state(r.self))
                    /\ response' = Ok("apply_move", None)

\* POST /api/move without a move
ApplyNoMove ==
    /\ response' = Failed("apply_move", "No move provided")
    /\ UNCHANGED <<board, move_history, redo_stack, ai_color>>

\* GET /api/ai-move/<depth>
BestMove ==
    /\ Len(move_history) < MaxHist
    /\ \E o \in Returned(UNION {get_best_move(board, move_history, ai_color,
                                               Max2(1, Min2(5, d)), clock)
                                 : d \in Depths, clock \in Clocks}) :
          LET engine == [Self EXCEPT !.board = o.board]
          IN  IF o.move # None
              THEN /\ Commit(get_state(make_move(engine, o.move).self))
                   /\ response' = Ok("best_move", o.move)
              ELSE /\ Commit(engine)
                   /\ response' = Failed("best_move", "No valid move found")

\* Variant of SuggestMove without the finally block
SuggestMoveKeepingSide ==
    LET assumed == [Self EXCEPT !.ai_color = board.turn]
    IN  \E o \in Returned(UNION {get_best_move(assumed.board, assumed.move_history,
                                                assumed.ai_color,
                                                Max2(1, Min2(5, d)), clock)
                                  : d \in Depths, clock \in Clocks}) :
           LET engine == [assumed EXCEPT !.board = o.board]
           IN  IF o.move # None
               THEN /\ Commit(get_state(engine))
                    /\ response' = Ok("suggest_move", o.move)
               ELSE /\ Commit(engine)
                    /\ response' = Failed("suggest_move", "No valid move found")

\* GET /api/suggest-move/<depth>
SuggestMove ==
    LET original_ai_color == ai_color
        assumed == [Self EXCEPT !.ai_color = board.turn]
    IN  \E o \in Returned(UNION {get_best_move(assumed.board, assumed.move_history,
                                                assumed.ai_color,
                                                Max2(1, Min2(5, d)), clock)
                                  : d \in Depths, clock \in Clocks}) :
           LET engine == [assumed EXCEPT !.board = o.board,
                                         !.ai_color = original_ai_color]
           IN  IF o.move # None
               THEN /\ Commit(get_state(engine))
                    /\ response' = Ok("suggest_move", o.move)
               ELSE /\ Commit(engine)
                    /\ response' = Failed("suggest_move", "No valid move found")

\* GET /move/<depth>/<fen>
BestMoveForPosition ==
    \E fen \in FenInputs :
        IF ~is_valid_fen(fen)
        THEN /\ response' = [Failed("best_move_for_position", "Invalid FEN string")
                              EXCEPT !.fen = fen]
             /\ UNCHANGED <<board, move_history, redo_stack, ai_color>>
        ELSE \E r \in UNION {get_best_move_for_fen(Self, fen, Max2(1, Min2(5, d)), clock)
                             : d \in Depths, clock \in Clocks} :
                /\ Commit(r.self)
                /\ response' =
                      [(IF r.result # None
                        THEN Ok("best_move_for_position", r.result)
                        ELSE Failed("best_move_for_position", "No valid move found"))
                       EXCEPT !.fen = fen]

\* GET /eval
Evaluation ==
    /\ Commit(get_state(Self))
    /\ response' = Ok("evaluation", None)

\* POST /api/undo
Undo ==
    LET first == undo_move(Self)
        ai_turn == first.self.board.turn = first.self.ai_color
        engine == IF /\ first.self.ai_color # NoColor
                     /\ ~ai_turn
                     /\ first.self.move_history # <<>>
                  THEN undo_move(first.self).self
                  ELSE first.self
    IN  IF first.move # None
        THEN /\ Commit(get_state(engine))
             /\ response' = Ok("undo", None)
        ELSE /\ Commit(first.self)
             /\ response' = Failed("undo", "No moves to undo")

\* POST /api/redo
Redo ==
    LET redone == redo_move(Self)
    IN  IF redone.move # None
        THEN /\ Commit(get_state(redone.self))
             /\ response' = Ok("redo", None)
        ELSE /\ Commit(redone.self)
             /\ response' = Failed("redo", "No moves to redo")

Next ==
    \/ NewGame
    \/ ApplyMove
    \/ ApplyNoMove
    \/ BestMove
    \/ SuggestMove
    \/ BestMoveForPosition
    \/ Evaluation
    \/ Undo
    \/ Redo

Spec == Init /\ [][Next]_vars

(***************************************************************************)
(* The properties checked of the session, claim by claim.                  *)
(***************************************************************************)
\* C1: at every reachable session state make_move refuses every move code
\* that is malformed or not legal there, and the refusal leaves the position,
\* the played history and the redo stack exactly as they were.
RejectedMoveChangesNothing ==
    \A code \in MoveInputs :
        (~IsUci(code) \/ ~is_legal(board, from_uci(code)))
            => make_move(Self, code) = [ok |-> FALSE, self |-> Self]

\* a move was refused in a session with played moves and moves to redo
RejectedMoveSeen ==
    /\ response.op = "apply_move"
    /\ response.error = "Invalid move"
    /\ move_history # <<>>
    /\ redo_stack # <<>>

\* C2: after every operation the session's board is the board obtained by
\* replaying the played history from the start position.
PositionIsReplayOfHistory == board = Replay(Board(STARTING_FEN), move_history)

\* an undo has left some moves played and some undone
UndoneToShorterHistory ==
    /\ response.op = "undo"
    /\ response.status = 200
    /\ move_history # <<>>
    /\ redo_stack # <<>>

\* C3: a new move applied by POST /api/move or by GET /api/ai-move leaves the
\* redo stack empty, and a redo on an empty redo stack fails with "No moves to
\* redo" and changes nothing.
NewMoveClearsRedo ==
    [][/\ (response'.op \in {"apply_move", "best_move"} /\ response'.status = 200)
             => redo_stack' = <<>>
       /\ (response'.op = "redo" /\ redo_stack = <<>>)
             => /\ response'.status = 400
                /\ response'.error = "No moves to redo"
                /\ UNCHANGED <<board, move_history, redo_stack, ai_color>>]_vars

\* a redo was refused in a session with played moves
RedoRefusedAfterMove ==
    /\ response.op = "redo"
    /\ response.status = 400
    /\ move_history # <<>>
    /\ redo_stack = <<>>

\* C4: after a successful undo in a session with an agent side and at least
\* two played moves, the side to move is not the agent's side.
UndoReturnsControlToHuman ==
    [][(/\ response'.op = "undo"
        /\ response'.status = 200
        /\ ai_color # NoColor
        /\ Len(move_history) >= 2)
          => board'.turn # ai_color']_vars

ReturnedMoveIsLegal ==
    [][/\ (response'.op \in {"best_move", "suggest_move"} /\ response'.status = 200)
             => /\ IsUci(response'.move)
                /\ is_legal(board, from_uci(response'.move))
       /\ (response'.op = "best_move_for_position" /\ response'.status = 200)
             => /\ IsUci(response'.move)
                /\ is_legal(Board(response'.fen), from_uci(response'.move))]_vars

\* a move was returned for a notation while the session's history is a key
\* of the agent's opening book
MoveReturnedBesideBook ==
    /\ response.op = "best_move_for_position"
    /\ response.status = 200
    /\ ai_color = BLACK
    /\ Len(move_history) = 2

\* the value of an unpruned minimax of the given depth over the legal moves,
\* the horizon scored by quiescence with the full window, from White's side
RECURSIVE FullMinimax(_, _)
FullMinimax(b, depth) ==
    IF depth = 0 \/ is_game_over(b)
    THEN IF b.turn = WHITE
         THEN quiescence(b, -INF, INF, 0, 0).score
         ELSE -quiescence(b, -INF, INF, 0, 0).score
    ELSE LET values == {FullMinimax(push(b, m), depth - 1) : m \in Range(legal_moves(b))}
         IN  IF b.turn = WHITE
             THEN CHOOSE v \in values : \A w \in values : v >= w
             ELSE CHOOSE v \in values : \A w \in values : v <= w

\* C7: with no time-budget abort, the score minimax returns from the window
\* (-inf, +inf) equals the value of the unpruned minimax of the same depth.
AlphaBetaEqualsFullMinimax ==
    \A depth \in 1 .. MaxDepth :
        minimax(board, depth, -INF, INF, board.turn = WHITE, 0, NoClock).score
            = FullMinimax(board, depth)

\* C8: get_best_move returns None exactly on a position where the game is
\* over, and there without searching.
NoneIffGameOver ==
    [][/\ response'.op \in {"best_move", "suggest_move"}
             => ((response'.status = 400) <=> GameOverAt(board))
       /\ (response'.op = "best_move_for_position" /\ FenParses(response'.fen))
             => ((response'.status = 400) <=> GameOverAt(Board(response'.fen)))
       /\ (response'.op = "best_move_for_position" /\ response'.fen = FEN_MATE)
             => \A d \in Depths, clock \in Clocks :
                   \A o \in get_best_move(Board(FEN_MATE), move_history, ai_color, d, clock) :
                      o.move = None /\ ~o.searched]_vars

\* no move was found for the notation of a checkmate
NoMoveOnCheckmate ==
    /\ response.op = "best_move_for_position"
    /\ response.status = 400
    /\ response.fen = FEN_MATE

\* the opening book of a side
BookOf(color) == IF color = WHITE THEN ENGLISH_OPENING ELSE MODERN_DEFENSE

\* the agent has a side and the played history is a key of its book
BookHit ==
    /\ ai_color # NoColor
    /\ JoinSpace(get_move_history_uci(move_history)) \in DOMAIN BookOf(ai_color)

\* the continuations the book lists for the played history
BookContinuations ==
    Range(BookOf(ai_color)[JoinSpace(get_move_history_uci(move_history))])

\* with no agent side the opening advisor supplies no move
NoAdviceWithoutSide ==
    get_opening_move(board, move_history, NoColor) = {[move |-> None, board |-> board]}

\* C9 as stated: on a book hit GET /api/ai-move returns one of the book's
\* continuations for the played history; without an agent side the advisor
\* supplies no move.
BestMoveIsBookMove ==
    [][/\ (response'.op = "best_move" /\ BookHit)
             => response'.move \in BookContinuations
       /\ NoAdviceWithoutSide]_vars

\* C9: on a book hit whose continuations are all legal in the position,
\* GET /api/ai-move returns one of the book's continuations for the played
\* history; without an agent side the advisor supplies no move.
BestMoveIsLegalBookMove ==
    [][/\ (/\ response'.op = "best_move"
           /\ BookHit
           /\ \A m \in BookContinuations : IsUci(m) /\ is_legal(board, from_uci(m)))
             => response'.move \in BookContinuations
       /\ NoAdviceWithoutSide]_vars

\* the agent, playing first, has answered the empty history from its book
BookMovePlayed ==
    /\ response.op = "best_move"
    /\ response.move \in Range(ENGLISH_OPENING[""])
    /\ ai_color = WHITE
    /\ Len(move_history) = 1

\* C10: GET /api/suggest-move leaves the position, the played history, the
\* redo stack and the agent side as they were, and it asks the selector with
\* the side to move as the agent: on the empty history it suggests White's
\* book move whatever the agent side is.
SuggestMoveAppliesNothing ==
    [][response'.op = "suggest_move"
          => /\ UNCHANGED <<board, move_history, redo_stack, ai_color>>
             /\ move_history = <<>> => response'.move \in Range(ENGLISH_OPENING[""])]_vars

\* White's book move was suggested in a session whose agent plays Black
SuggestedForOtherSide ==
    /\ response.op = "suggest_move"
    /\ response.status = 200
    /\ response.move \in Range(ENGLISH_OPENING[""])
    /\ ai_color = BLACK
    /\ board.turn = WHITE
    /\ move_history = <<>>

\* C11: at every reachable session state with a played move, undo_move
\* followed at once by redo_move gives back the board, the played history
\* and the redo stack as they were and reports the move undone; and the move
\* a redo would push is legal in the position it is pushed onto.
UndoThenRedoRestores ==
    /\ move_history # <<>>
          => redo_move(undo_move(Self).self)
                = [move |-> uci(move_history[Len(move_history)]), self |-> Self]
    /\ redo_stack # <<>> => is_legal(board, redo_stack[Len(redo_stack)])

\* a redo has succeeded after two undos: a move is played again and another
\* is still to redo
RedoneAfterUndos ==
    /\ response.op = "redo"
    /\ response.status = 200
    /\ move_history # <<>>
    /\ redo_stack # <<>>

\* the boards on which the search is also run one ply deeper than a
\* request asks for: the start position and the positions of the notations
DeeperBoards ==
    {Board(STARTING_FEN)} \cup {Board(fen) : fen \in {f \in FenInputs : FenParses(f)}}

\* the root call of minimax on these boards, one ply deeper, under every clock
DeeperSearches ==
    {<<b, minimax(b, MaxDepth + 1, -INF, INF, b.turn = WHITE, 0, clock)>>
     : b \in DeeperBoards, clock \in Clocks}

\* C12: every operator of the search that pushes moves on the shared board
\* returns with the board as it found it: minimax (every depth, every clock,
\* so also after a break and after an abort), quiescence, order_moves, the
\* thematic filter, the safety net, and get_best_move as a whole.
SearchLeavesBoard ==
    /\ \A d \in Depths, clock \in Clocks :
          RootSearch(board, d, clock).board = board
    /\ \A row \in DeeperSearches : row[2].board = row[1]
    /\ quiescence(board, -INF, INF, 0, 0).board = board
    /\ order_moves(board, legal_moves(board)).board = board
    /\ \A color \in {WHITE, BLACK} :
          \A o \in ThematicMoveAt(board, color, ThematicMovesOf(color)) : o.board = board
    /\ \A m \in Range(legal_moves(board)) : SafetyNet(board, ai_color, m).board = board
    /\ \A color \in {ai_color, board.turn}, d \in Depths, clock \in Clocks :
          \A o \in get_best_move(board, move_history, color, d, clock) : o.board = board

\* a move was suggested, two moves into the game, on a position with a
\* capture for quiescence to look at
SearchedWithCaptures ==
    /\ response.op = "suggest_move"
    /\ response.status = 200
    /\ Len(move_history) >= 2
    /\ \E m \in Range(legal_moves(board)) : is_capture(board, m)

\* self.evaluate() after move m on board b, from the perspective of color
EvalAfter(b, m, color) ==
    evaluate(push(b, m)).value * (IF color = WHITE THEN 1 ELSE -1)

\* the moves the search may hand to the safety net on board b: minimax's
\* best move or, after an abort at the root, any legal move
SearchChoices(b) ==
    UNION {Chosen(RootSearch(b, d, clock), legal_moves(b)) : d \in Depths, clock \in Clocks}

\* the first of the legal moves of b with the best evaluation for color
BestEvaluated(b, color) ==
    LET moves == legal_moves(b)
        best == CHOOSE i \in 1 .. Len(moves) :
                    /\ \A j \in 1 .. Len(moves) :
                          EvalAfter(b, moves[i], color) >= EvalAfter(b, moves[j], color)
                    /\ \A j \in 1 .. i - 1 :
                          EvalAfter(b, moves[j], color) < EvalAfter(b, moves[i], color)
    IN  moves[best]

\* the position the selector was last asked about: the position of the
\* notation after GET /move, the session's position otherwise
AskedBoard ==
    IF response.op = "best_move_for_position" /\ FenParses(response.fen)
    THEN Board(response.fen)
    ELSE board

\* C13 as stated: with an agent side, a chosen move whose evaluation for the
\* agent is below the safety threshold is replaced by the best-evaluated
\* legal move; otherwise the chosen move is returned unchanged.
SafetyNetReturnsBestEvaluated ==
    \A m \in SearchChoices(AskedBoard) :
        SafetyNet(AskedBoard, ai_color, m).move
            = IF ai_color # NoColor /\ EvalAfter(AskedBoard, m, ai_color) < safety_threshold
              THEN BestEvaluated(AskedBoard, ai_color)
              ELSE m

\* C13: with an agent side, a chosen move whose evaluation for the agent is
\* below the safety threshold is replaced by the best-evaluated legal move
\* when that move's evaluation reaches the threshold, and kept when no legal
\* move reaches it; otherwise the chosen move is returned unchanged.
SafetyNetReturnsBestSafe ==
    \A m \in SearchChoices(AskedBoard) :
        SafetyNet(AskedBoard, ai_color, m).move
            = IF /\ ai_color # NoColor
                 /\ EvalAfter(AskedBoard, m, ai_color) < safety_threshold
                 /\ EvalAfter(AskedBoard, BestEvaluated(AskedBoard, ai_color), ai_color)
                       >= safety_threshold
              THEN BestEvaluated(AskedBoard, ai_color)
              ELSE m

\* on the session's position a choice of the search is below the threshold
\* for the agent and the safety net puts another move in its place
SaferMoveChosen ==
    /\ ai_color # NoColor
    /\ AskedBoard = board
    /\ \E m \in SearchChoices(board) :
          /\ EvalAfter(board, m, ai_color) < safety_threshold
          /\ SafetyNet(board, ai_color, m).move # m

\* the clocks under which the budget is found exceeded at some visit
ExpiringClocks == {clock \in Clocks : clock.expires}

\* what minimax returns from a node entered with the budget exceeded: the
\* static evaluation e, sign-adjusted for the maximizing flag, no best move,
\* and a node counter that counts this visit and no other
AbortedAt(e, maximizing, nodes) ==
    [score |-> IF maximizing THEN e.value ELSE -e.value,
     move |-> NoMove, board |-> e.board, nodes |-> nodes + 1, aborted |-> TRUE]

\* every minimax node on the session's position that is entered with the
\* budget exceeded (at the first visit after it ran out, and at the next)
\* returns at once; e is self.evaluate() there
MinimaxNodesAbortWith(e) ==
    \A depth \in 0 .. MaxDepth, clock \in ExpiringClocks :
        \A nodes \in {clock.after, clock.after + 1} :
            minimax(board, depth, -INF, INF, board.turn = WHITE, nodes, clock)
                = AbortedAt(e, board.turn = WHITE, nodes)

\* every quiescence node on the session's position that is entered with the
\* budget exceeded returns the static evaluation and visits no other node
QuiescenceNodesAbort ==
    \A clock \in ExpiringClocks :
        quiescence(board, -INF, INF, 0, clock.after)
            = [score |-> (IF board.turn = BLACK THEN -1 ELSE 1) * evaluate(board).value,
               board |-> board, nodes |-> clock.after + 1]

\* under every clock get_best_move returns a move unless the game is over;
\* when the budget runs out right after the root's visit, the search visits
\* the root and each of its children once and no other node
SelectorStillReturnsMove ==
    /\ \A d \in Depths, clock \in Clocks :
          \A o \in get_best_move(board, move_history, ai_color, d, clock) :
             GameOverAt(board) \/ o.move # None
    /\ \A d \in Depths :
          GameOverAt(board)
             \/ RootSearch(board, d, [expires |-> TRUE, after |-> 1]).nodes
                   = 1 + Len(legal_moves(board))

\* C14 as stated: once the budget is exceeded every node entered afterwards,
\* of minimax or of quiescence, returns the static evaluation without
\* visiting another node, and get_best_move still returns a move.
EveryNodeAbortsAfterBudget ==
    /\ MinimaxNodesAbortWith(evaluate(board))
    /\ QuiescenceNodesAbort
    /\ SelectorStillReturnsMove

\* C14: once the budget is exceeded every minimax node entered afterwards
\* returns the static evaluation, sign-adjusted for the maximizing flag,
\* with no best move and without visiting another node, and get_best_move
\* still returns a move.
EveryMinimaxNodeAbortsAfterBudget ==
    /\ MinimaxNodesAbortWith(evaluate(board))
    /\ SelectorStillReturnsMove

\* GET /api/ai-move has played a move that get_best_move returns only when
\* the budget runs out
AbortedSearchPlayed ==
    /\ response.op = "best_move"
    /\ response.status = 200
    /\ \A d \in Depths :
          \A o \in get_best_move(pop(board),
                                 SubSeq(move_history, 1, Len(move_history) - 1),
                                 ai_color, d, NoClock) :
             o.move # response.move

====
